---- MODULE Spec2Model ----
\* Model of the syl2381 driver (src/src/lib.rs): the numeric codec that splits an
\* f32 over two holding registers, the enumerated parameters, the register map,
\* the range-checked accessors and the Modbus RTU transaction each accessor runs
\* over a byte-granular transport.
\*
\* An f32 is the record [s, e, m] of its IEEE-754 binary32 fields (sign bit,
\* 8-bit biased exponent, 23-bit fraction): a 32-bit pattern does not fit the
\* integers of the model checker, its three fields do.
EXTENDS Integers, Sequences, FiniteSets, TLC

VARIABLES
    unit_id,    \* Syl2381.unit_id
    pc,         \* position of the accessor call in progress
    call,       \* the accessor called last and its argument
    mreq,       \* the ModbusRequest of the call (unit_id, func, reg, count)
    request,    \* the request frame generated for the call
    tx,         \* bytes the transport accepted during the call
    response,   \* the response buffer of the call
    nread,      \* bytes the transport delivered during the call
    rx,         \* bytes sent by the device and not read yet
    answered,   \* whether the device has answered the request of the call
    result,     \* what the call returned
    ncalls,     \* accessor calls started on the handle
    frame_len,  \* the frame length inferred from the prefix (0 before that)
    answer,     \* the frame the device sent in answer to the call's request
    polls,      \* WouldBlock results of the transport operation in progress
    port_err,   \* the error the transport returned to the call, if any
    cpc,        \* numeric codec harness: position
    cin,        \* numeric codec harness: input
    cmid,       \* numeric codec harness: wire form
    cout        \* numeric codec harness: output

vars == <<unit_id, pc, call, mreq, request, tx, response, nread, rx, answered,
          result, ncalls, frame_len, answer, polls, port_err,
          cpc, cin, cmid, cout>>

driverVars == <<unit_id, pc, call, mreq, request, tx, response, nread, rx,
                answered, result, ncalls, frame_len, answer, polls,
                port_err>>

codecVars == <<cpc, cin, cmid, cout>>

Min(a, b) == IF a <= b THEN a ELSE b

(***************************************************************************)
(* f32: fields, literals, comparisons and the `as` casts                    *)
(***************************************************************************)

F32(s, e, m) == [s |-> s, e |-> e, m |-> m]

IsNaN(f) == f.e = 255 /\ f.m # 0

\* Position of a non-NaN float on the number line, as an integer that orders
\* like the float does (+0.0 and -0.0 coincide).
F32Key(f) == IF f.s = 1 THEN 0 - (f.e * 8388608 + f.m) ELSE f.e * 8388608 + f.m

\* a >= b, a <= b, a == b on f32: false as soon as one side is NaN.
F32Ge(a, b) == ~IsNaN(a) /\ ~IsNaN(b) /\ F32Key(a) >= F32Key(b)
F32Le(a, b) == ~IsNaN(a) /\ ~IsNaN(b) /\ F32Key(a) <= F32Key(b)
F32Eq(a, b) == ~IsNaN(a) /\ ~IsNaN(b) /\ F32Key(a) = F32Key(b)

\* Integer part of |f|, capped at 65536 (every cast below saturates earlier).
F32Mag(f) ==
    IF f.e < 127 THEN 0
    ELSE IF f.e >= 143 THEN 65536
    ELSE (8388608 + f.m) \div (2 ^ (150 - f.e))

\* `f as u8`, `f as u16`, `f as i16`: truncate toward zero, saturate, NaN is 0.
AsU8(f) == IF IsNaN(f) \/ f.s = 1 THEN 0 ELSE Min(F32Mag(f), 255)
AsU16(f) == IF IsNaN(f) \/ f.s = 1 THEN 0 ELSE Min(F32Mag(f), 65535)
AsI16(f) ==
    IF IsNaN(f) THEN 0
    ELSE IF f.s = 1 THEN 0 - Min(F32Mag(f), 32768)
    ELSE Min(F32Mag(f), 32767)

\* `n as f32` for an i16, u16 or u8 n: exact, |n| < 2^24.
IntAsF32(n) ==
    LET a == IF n < 0 THEN 0 - n ELSE n
        k == CHOOSE j \in 0..16 : 2 ^ j <= a /\ a < 2 ^ (j + 1)
    IN  IF a = 0 THEN F32(0, 0, 0)
        ELSE F32(IF n < 0 THEN 1 ELSE 0, 127 + k, (a - 2 ^ k) * 2 ^ (23 - k))

\* The float literals of the range checks.
LitZero == F32(0, 0, 0)                 \* 0.0
LitOne == F32(0, 127, 0)                \* 1.0
LitNegTenth == F32(1, 123, 5033165)     \* -0.1    (0xBDCCCCCD)
LitP_Max == F32(0, 140, 1851290)        \* 9999.9  (0x461C3F9A)

(***************************************************************************)
(* Numeric codec                                                           *)
(***************************************************************************)

U16ToBeBytes(d) == <<d \div 256, d % 256>>
U16FromBeBytes(b) == b[1] * 256 + b[2]

F32ToBeBytes(f) ==
    <<f.s * 128 + f.e \div 2,
      (f.e % 2) * 128 + f.m \div 65536,
      (f.m \div 256) % 256,
      f.m % 256>>

F32FromBeBytes(b) ==
    F32(b[1] \div 128,
        (b[1] % 128) * 2 + b[2] \div 128,
        (b[2] % 128) * 65536 + b[3] * 256 + b[4])

values_to_f32_swapped(d0, d1) ==
    F32FromBeBytes(U16ToBeBytes(d1) \o U16ToBeBytes(d0))

values_to_f32(d0, d1) ==
    F32FromBeBytes(U16ToBeBytes(d0) \o U16ToBeBytes(d1))

f32_to_values_low_first(val) ==
    LET b == F32ToBeBytes(val)
    IN  <<U16FromBeBytes(<<b[3], b[4]>>), U16FromBeBytes(<<b[1], b[2]>>)>>

f32_to_values_lossy(val) ==
    LET b == F32ToBeBytes(val)
    IN  <<U16FromBeBytes(<<b[1] % 128, b[2]>>), U16FromBeBytes(<<b[3], b[4]>>)>>

f32_to_values(val) ==
    LET b == F32ToBeBytes(val)
    IN  <<U16FromBeBytes(<<b[1], b[2]>>), U16FromBeBytes(<<b[3], b[4]>>)>>

(***************************************************************************)
(* Parameter catalog: register map and enumerated parameters               *)
(***************************************************************************)

PV == 356           \* 0x0164
OUT == 358          \* 0x0166
AL1_STA == 5        \* 0x0005 (coil)
CV == 364           \* 0x016C
AT == 0             \* 0x0000 (coil)
SV == 0             \* 0x0000
AH1 == 2            \* 0x0002
AL1 == 4            \* 0x0004
P == 4096           \* 0x1000
I == 4098           \* 0x1002
D == 4100           \* 0x1004
BB == 4102          \* 0x1006
SOUF == 4104        \* 0x1008
OT_at_SOUF == SOUF

OT == 4106          \* 0x100A
FILT == 4108        \* 0x100C
INTY == 8192        \* 0x2000
OUTY == 8194        \* 0x2002
COTY == 8196        \* 0x2004
HY == 8198          \* 0x2006
PSB == 8200         \* 0x2008
RD == 8202          \* 0x200A
CORF == 8204        \* 0x200C
ID == 8206          \* 0x200E
BAUD == 8208        \* 0x2010

EnumTypes ==
    {"Filter", "ControlDirection", "DisplayUnit", "BaudRate", "InputType",
     "OutputType", "OutputMode"}

\* impl TryFrom<f32> for T: the match arms, in order of the ordinal matched.
TryFromArms ==
    [Filter |-> <<"Disabled", "Weak", "Strong">>,
     ControlDirection |-> <<"Heating", "Cooling">>,
     DisplayUnit |-> <<"Celsius", "Fahrenheit">>,
     BaudRate |-> <<"Baud1200", "Baud2400", "Baud4800", "Baud9600">>,
     InputType |-> <<"T", "R", "J", "Wre3_25", "B", "S", "K", "E", "P100",
                     "P10_0", "CU50">>,
     OutputType |-> <<"SSR", "MA_0_20", "MA_4_20">>,
     OutputMode |-> <<"J1RelayAsAbsoluteAlarmOutputSsrPortAsPidControlOutput",
                      "J1RelayAsDerivationAlarmOutputSsrPortAsPidControlOutput",
                      "J1RelayAsPidControlOutputSsrPortDisabled",
                      "J1RelayAsOnOffControlOutputSsrPortDisabled",
                      "J1RelayAsAbsoluteAlarmOutputSsrPortDisabled">>]

\* impl From<T> for f32: the match arms, variant to the float literal returned.
IntoArms ==
    [Filter |-> [Disabled |-> 0, Weak |-> 1, Strong |-> 2],
     ControlDirection |-> [Heating |-> 0, Cooling |-> 1],
     DisplayUnit |-> [Celsius |-> 0, Fahrenheit |-> 1],
     BaudRate |-> [Baud1200 |-> 0, Baud2400 |-> 1, Baud4800 |-> 2,
                   Baud9600 |-> 3],
     InputType |-> [T |-> 0, R |-> 1, J |-> 2, Wre3_25 |-> 3, B |-> 4, S |-> 5,
                    K |-> 6, E |-> 7, P100 |-> 8, P10_0 |-> 9, CU50 |-> 10],
     OutputType |-> [SSR |-> 0, MA_0_20 |-> 1, MA_4_20 |-> 2],
     OutputMode |->
        [J1RelayAsAbsoluteAlarmOutputSsrPortAsPidControlOutput |-> 0,
         J1RelayAsDerivationAlarmOutputSsrPortAsPidControlOutput |-> 1,
         J1RelayAsPidControlOutputSsrPortDisabled |-> 2,
         J1RelayAsOnOffControlOutputSsrPortDisabled |-> 3,
         J1RelayAsAbsoluteAlarmOutputSsrPortDisabled |-> 4]]

\* The variants of an enumeration, as the values the accessors pass around.
Variant(ty, name) == [ty |-> ty, name |-> name]
Variants(ty) == {Variant(ty, n) : n \in DOMAIN IntoArms[ty]}
AllVariants == UNION {Variants(ty) : ty \in EnumTypes}

\* T::try_from(value): Ok(variant) or Err(()).
EnumTryFrom(ty, value) ==
    LET val == AsU8(value)
    IN  IF val < Len(TryFromArms[ty])
        THEN [ok |-> TRUE, v |-> Variant(ty, TryFromArms[ty][val + 1])]
        ELSE [ok |-> FALSE]

\* f32::from(variant), also written variant.into().
EnumIntoShifted(v) == IntAsF32(IntoArms[v.ty][v.name] + 1)

EnumInto(v) == IntAsF32(IntoArms[v.ty][v.name])

(***************************************************************************)
(* Results of an accessor call                                             *)
(***************************************************************************)

\* Ok(v), with the Rust type of v.
Ok(ty, v) == [kind |-> "Ok", ty |-> ty, val |-> v]
\* Error::SerialError(err)
SerialError(e) == [kind |-> "SerialError", err |-> e]
ModbusError(k) == [kind |-> "ModbusError", err |-> k]
UnexpectedValue(f) == [kind |-> "UnexpectedValue", val |-> f]
Panicked == [kind |-> "panic"]
NoResult == [kind |-> "none"]

\* try_from_f32::<T, UART>(val)
try_from_f32(ty, val) ==
    LET r == EnumTryFrom(ty, val)
    IN  IF r.ok THEN Ok(ty, r.v) ELSE UnexpectedValue(val)

(***************************************************************************)
(* Modbus RTU codec (crate rmodbus), as far as the driver calls it          *)
(***************************************************************************)

MODBUS_GET_COILS == 1
MODBUS_GET_HOLDINGS == 3
MODBUS_SET_HOLDINGS_BULK == 16

RECURSIVE BitXor(_, _, _)
\* a XOR b on the low n bits.
BitXor(a, b, n) ==
    IF n = 0 THEN 0
    ELSE ((a + b) % 2) + 2 * BitXor(a \div 2, b \div 2, n - 1)

RECURSIVE CrcShift(_, _)
\* k rounds of the reflected CRC-16 shift register, polynomial 0xA001.
CrcShift(crc, k) ==
    IF k = 0 THEN crc
    ELSE CrcShift(IF crc % 2 = 1 THEN BitXor(crc \div 2, 40961, 16)
                  ELSE crc \div 2, k - 1)

CrcTable == [b \in 0..255 |-> CrcShift(b, 8)]

RECURSIVE CrcFold(_, _, _, _)
\* The table-driven update, one frame byte per step; each intermediate value
\* is bound as a value before the next step uses it.
CrcFold(frame, i, n, crc) ==
    IF i > n THEN crc
    ELSE CHOOSE r \in
            {CrcFold(frame, i + 1, n, c) :
                c \in {BitXor(crc \div 256,
                              CrcTable[BitXor(crc % 256, frame[i], 8)], 16)}} :
            TRUE

\* calc_crc16(frame, data_length)
calc_crc16(frame, data_length) == CrcFold(frame, 1, data_length, 65535)

U16ToLeBytes(d) == <<d % 256, d \div 256>>
U16FromLeBytes(b) == b[1] + b[2] * 256

WithCrc(body) == body \o U16ToLeBytes(calc_crc16(body, Len(body)))

\* ModbusRequest::new(unit_id, ModbusProto::Rtu)
NewRequest(uid) == [unit_id |-> uid, func |-> 0, reg |-> 0, count |-> 0]

generate_get_inputs(rq, reg, count) ==
    [mreq |-> [rq EXCEPT !.func = 4, !.reg = reg, !.count = count],
     frame |-> WithCrc(<<rq.unit_id, 4>>
                       \o U16ToBeBytes(reg) \o U16ToBeBytes(count))]

\* mreq.generate_get_holdings(reg, count, &mut request)
generate_get_holdings(rq, reg, count) ==
    [mreq |-> [rq EXCEPT !.func = MODBUS_GET_HOLDINGS, !.reg = reg,
                         !.count = count],
     frame |-> WithCrc(<<rq.unit_id, MODBUS_GET_HOLDINGS>>
                       \o U16ToBeBytes(reg) \o U16ToBeBytes(count))]

\* mreq.generate_get_coils(reg, count, &mut request)
generate_get_coils(rq, reg, count) ==
    [mreq |-> [rq EXCEPT !.func = MODBUS_GET_COILS, !.reg = reg,
                         !.count = count],
     frame |-> WithCrc(<<rq.unit_id, MODBUS_GET_COILS>>
                       \o U16ToBeBytes(reg) \o U16ToBeBytes(count))]

generate_set_holdings_bulk_swapped(rq, reg, values) ==
    [mreq |-> [rq EXCEPT !.func = MODBUS_SET_HOLDINGS_BULK, !.reg = reg,
                         !.count = Len(values)],
     frame |-> WithCrc(<<rq.unit_id, MODBUS_SET_HOLDINGS_BULK>>
                       \o U16ToBeBytes(reg) \o U16ToBeBytes(Len(values))
                       \o <<2 * Len(values)>>
                       \o U16ToBeBytes(values[2]) \o U16ToBeBytes(values[1]))]

\* mreq.generate_set_holdings_bulk(reg, &values, &mut request)
generate_set_holdings_bulk(rq, reg, values) ==
    [mreq |-> [rq EXCEPT !.func = MODBUS_SET_HOLDINGS_BULK, !.reg = reg,
                         !.count = Len(values)],
     frame |-> WithCrc(<<rq.unit_id, MODBUS_SET_HOLDINGS_BULK>>
                       \o U16ToBeBytes(reg) \o U16ToBeBytes(Len(values))
                       \o <<2 * Len(values)>>
                       \o U16ToBeBytes(values[1]) \o U16ToBeBytes(values[2]))]

guess_response_frame_len_unbounded(buf) ==
    LET func == buf[2]
        len == IF func >= 128 THEN 5
               ELSE IF func \in 1..4 THEN buf[3] + 5
               ELSE IF func \in {5, 6, 15, 16} THEN 8
               ELSE 0
    IN  IF len = 0
        THEN [ok |-> FALSE, err |-> "FrameBroken"]
        ELSE [ok |-> TRUE, len |-> len]

guess_response_frame_len_no_exception(buf) ==
    LET func == buf[2]
        len == IF func \in 1..4 THEN buf[3] + 5
               ELSE IF func \in {5, 6, 15, 16} THEN 8
               ELSE 0
    IN  IF len = 0 \/ len > 255
        THEN [ok |-> FALSE, err |-> "FrameBroken"]
        ELSE [ok |-> TRUE, len |-> len]

\* guess_response_frame_len(&response, ModbusProto::Rtu) on the 3-byte prefix:
\* Ok(len) or Err(FrameBroken).
guess_response_frame_len(buf) ==
    LET func == buf[2]
        len == IF func >= 128 THEN 5
               ELSE IF func \in 1..4 THEN buf[3] + 5
               ELSE IF func \in {5, 6, 15, 16} THEN 8
               ELSE 0
    IN  IF len = 0 \/ len > 255
        THEN [ok |-> FALSE, err |-> "FrameBroken"]
        ELSE [ok |-> TRUE, len |-> len]

\* ModbusRequest::parse_response: "ok" or the ErrorKind. An RTU frame is
\* accepted when it has at least 5 bytes, its trailing CRC matches, and it
\* echoes the unit id and the function code of the request.
parse_response(rq, buf) ==
    LET l == Len(buf) - 2
    IN  IF Len(buf) < 5 THEN "FrameBroken"
        ELSE IF calc_crc16(buf, l) # U16FromLeBytes(<<buf[l + 1], buf[l + 2]>>)
        THEN "FrameCRCError"
        ELSE IF buf[1] # rq.unit_id THEN "FrameBroken"
        ELSE IF buf[2] # rq.func
        THEN (IF buf[2] = rq.func + 128 THEN "Exception" ELSE "FrameBroken")
        ELSE "ok"

\* mreq.parse_ok(&response)
parse_ok(rq, buf) == parse_response(rq, buf)

RECURSIVE WordsFrom(_, _, _)
WordsFrom(buf, pos, frame_end) ==
    IF pos + 1 > frame_end THEN <<>>
    ELSE <<U16FromBeBytes(<<buf[pos], buf[pos + 1]>>)>>
         \o WordsFrom(buf, pos + 2, frame_end)

\* mreq.parse_u16(&response, &mut data) into a heapless::Vec<u16, 2>: the words
\* of the payload are pushed in order; a push beyond the capacity is Err(OOB).
parse_u16(rq, buf) ==
    LET st == parse_response(rq, buf)
        words == WordsFrom(buf, 4, Len(buf) - 2)
    IN  IF st # "ok" THEN [err |-> st, data |-> <<>>]
        ELSE IF Len(words) > 2 THEN [err |-> "OOB", data |-> <<>>]
        ELSE [err |-> "ok", data |-> words]

(***************************************************************************)
(* Status flags                                                            *)
(***************************************************************************)

Status(b) == [status |-> b]

alarm1_bit6(st) == (st.status \div 64) % 2 = 1

alarm1(st) == (st.status \div 32) % 2 = 1
anomaly(st) == (st.status \div 16) % 2 = 1
setting_mode(st) == (st.status \div 8) % 2 = 1
cooling_mode(st) == (st.status \div 4) % 2 = 1
manual_mode(st) == (st.status \div 2) % 2 = 1
autotune_mode(st) == st.status % 2 = 1

(***************************************************************************)
(* Accessors                                                               *)
(***************************************************************************)

\* Getters over get_holding: the register read and the conversion applied to
\* the float ("f32": none; "u16", "i16", "u8": `as` cast; "bool": == 1.0;
\* an enumeration: try_from_f32).
HoldingGetters ==
    [get_pv |-> [reg |-> PV, conv |-> "u16"],
     get_out |-> [reg |-> OUT, conv |-> "f32"],
     get_cv |-> [reg |-> CV, conv |-> "bool"],
     get_sv |-> [reg |-> SV, conv |-> "i16"],
     get_j1_on_temp |-> [reg |-> AH1, conv |-> "i16"],
     get_j1_off_temp |-> [reg |-> AL1, conv |-> "i16"],
     get_p |-> [reg |-> P, conv |-> "f32"],
     get_i |-> [reg |-> I, conv |-> "u16"],
     get_d |-> [reg |-> D, conv |-> "u16"],
     get_bb |-> [reg |-> BB, conv |-> "u16"],
     get_souf |-> [reg |-> SOUF, conv |-> "f32"],
     get_control_cycle |-> [reg |-> OT, conv |-> "u16"],
     get_filter |-> [reg |-> FILT, conv |-> "Filter"],
     get_input_sensor_type |-> [reg |-> INTY, conv |-> "InputType"],
     get_output_mode |-> [reg |-> OUTY, conv |-> "OutputMode"],
     get_output_type |-> [reg |-> COTY, conv |-> "OutputType"],
     get_hysteresis |-> [reg |-> HY, conv |-> "u16"],
     get_input_offset |-> [reg |-> PSB, conv |-> "i16"],
     get_control_direction |-> [reg |-> RD, conv |-> "ControlDirection"],
     get_display_unit |-> [reg |-> CORF, conv |-> "DisplayUnit"],
     get_unit_id |-> [reg |-> ID, conv |-> "u8"],
     get_baud_rate |-> [reg |-> BAUD, conv |-> "BaudRate"]]

CoilGetters_nine ==
    [get_j1_status |-> [reg |-> AL1_STA, count |-> 1],
     get_status |-> [reg |-> AT, count |-> 9]]

\* Getters over get_coils: the first coil and the number of coils read.
CoilGetters ==
    [get_j1_status |-> [reg |-> AL1_STA, count |-> 1],
     get_status |-> [reg |-> AT, count |-> 8]]

\* Setters over set_holding: the register written and the argument's type.
Setters ==
    [set_out |-> [reg |-> OUT, ty |-> "f32"],
     set_cv |-> [reg |-> CV, ty |-> "bool"],
     set_sv |-> [reg |-> SV, ty |-> "i16"],
     set_j1_on_temp |-> [reg |-> AH1, ty |-> "i16"],
     set_j1_off_temp |-> [reg |-> AL1, ty |-> "i16"],
     set_p |-> [reg |-> P, ty |-> "f32"],
     set_i |-> [reg |-> I, ty |-> "u16"],
     set_d |-> [reg |-> D, ty |-> "u16"],
     set_bb |-> [reg |-> BB, ty |-> "u16"],
     set_souf |-> [reg |-> SOUF, ty |-> "f32"],
     set_control_cycle |-> [reg |-> OT, ty |-> "u16"],
     set_filter |-> [reg |-> FILT, ty |-> "Filter"],
     set_input_sensor_type |-> [reg |-> INTY, ty |-> "InputType"],
     set_output_mode |-> [reg |-> OUTY, ty |-> "OutputMode"],
     set_output_type |-> [reg |-> COTY, ty |-> "OutputType"],
     set_hysteresis |-> [reg |-> HY, ty |-> "u16"],
     set_intput_offset |-> [reg |-> PSB, ty |-> "i16"],
     set_control_direction |-> [reg |-> RD, ty |-> "ControlDirection"],
     set_display_unit |-> [reg |-> CORF, ty |-> "DisplayUnit"],
     set_unit_id |-> [reg |-> ID, ty |-> "u8"],
     set_baud_rate |-> [reg |-> BAUD, ty |-> "BaudRate"]]

\* The range check at the head of each setter that has one.
set_out_check(val) == F32Ge(val, LitZero) /\ F32Le(val, LitOne)
set_sv_check_open(val) == val > -1999 /\ val < 9999
set_sv_check(val) == val >= -1999 /\ val <= 9999
set_j1_on_temp_check(val) == val >= -1999 /\ val <= 9999
set_j1_off_temp_check(val) == val >= -1999 /\ val <= 9999
set_p_check(val) == F32Ge(val, LitNegTenth) /\ F32Le(val, LitP_Max)
set_i_check_from1(val) == val >= 1 /\ val <= 1999
set_i_check(val) == val >= 2 /\ val <= 1999
set_d_check(val) == val <= 999
set_bb_check(val) == val >= 1 /\ val <= 1999
set_souf_check(val) == F32Ge(val, LitZero) /\ F32Le(val, LitOne)
set_control_cycle_check(val) == val >= 1 /\ val <= 500
set_hysteresis_check(val) == val <= 9999
set_intput_offset_check(val) == val >= -1000 /\ val <= 1000
set_unit_id_check(val) == val <= 64

CheckedSetters ==
    {"set_out", "set_sv", "set_j1_on_temp", "set_j1_off_temp", "set_p",
     "set_i", "set_d", "set_bb", "set_souf", "set_control_cycle",
     "set_hysteresis", "set_intput_offset", "set_unit_id"}

RangeOk(name, val) ==
    CASE name = "set_out" -> set_out_check(val)
      [] name = "set_sv" -> set_sv_check(val)
      [] name = "set_j1_on_temp" -> set_j1_on_temp_check(val)
      [] name = "set_j1_off_temp" -> set_j1_off_temp_check(val)
      [] name = "set_p" -> set_p_check(val)
      [] name = "set_i" -> set_i_check(val)
      [] name = "set_d" -> set_d_check(val)
      [] name = "set_bb" -> set_bb_check(val)
      [] name = "set_souf" -> set_souf_check(val)
      [] name = "set_control_cycle" -> set_control_cycle_check(val)
      [] name = "set_hysteresis" -> set_hysteresis_check(val)
      [] name = "set_intput_offset" -> set_intput_offset_check(val)
      [] name = "set_unit_id" -> set_unit_id_check(val)
      [] OTHER -> TRUE

SetterF32_true_as_two(name, val) ==
    LET ty == Setters[name].ty
    IN  CASE ty = "f32" -> val
          [] ty = "bool" -> IF val THEN IntAsF32(2) ELSE LitZero
          [] ty \in {"i16", "u16", "u8"} -> IntAsF32(val)
          [] OTHER -> EnumInto(val)

\* The f32 a setter hands to set_holding (and to UnexpectedValue).
SetterF32(name, val) ==
    LET ty == Setters[name].ty
    IN  CASE ty = "f32" -> val
          [] ty = "bool" -> IF val THEN LitOne ELSE LitZero
          [] ty \in {"i16", "u16", "u8"} -> IntAsF32(val)
          [] OTHER -> EnumInto(val)

\* What a getter makes of the float get_holding returned.
GetterConvert(name, val) ==
    LET conv == HoldingGetters[name].conv
    IN  CASE conv = "f32" -> Ok("f32", val)
          [] conv = "u16" -> Ok("u16", AsU16(val))
          [] conv = "i16" -> Ok("i16", AsI16(val))
          [] conv = "u8" -> Ok("u8", AsU8(val))
          [] conv = "bool" -> Ok("bool", F32Eq(val, LitOne))
          [] OTHER -> try_from_f32(conv, val)

\* What a coil getter makes of the byte get_coils returned.
CoilConvert(name, val) ==
    IF name = "get_status" THEN Ok("Status", Status(val))
    ELSE Ok("bool", val % 2 = 1)

\* The setter of each holding-register parameter that has one, by its getter.
SetterOf ==
    [get_out |-> "set_out",
     get_cv |-> "set_cv",
     get_sv |-> "set_sv",
     get_j1_on_temp |-> "set_j1_on_temp",
     get_j1_off_temp |-> "set_j1_off_temp",
     get_p |-> "set_p",
     get_i |-> "set_i",
     get_d |-> "set_d",
     get_bb |-> "set_bb",
     get_souf |-> "set_souf",
     get_control_cycle |-> "set_control_cycle",
     get_filter |-> "set_filter",
     get_input_sensor_type |-> "set_input_sensor_type",
     get_output_mode |-> "set_output_mode",
     get_output_type |-> "set_output_type",
     get_hysteresis |-> "set_hysteresis",
     get_input_offset |-> "set_intput_offset",
     get_control_direction |-> "set_control_direction",
     get_display_unit |-> "set_display_unit",
     get_unit_id |-> "set_unit_id",
     get_baud_rate |-> "set_baud_rate"]

(***************************************************************************)
(* Inputs explored                                                         *)
(***************************************************************************)

MaxCalls == 2       \* accessor calls made on one handle
MaxStale == 0       \* unread bytes left on the line with which a further call is still made
MaxWouldBlock == 1  \* WouldBlock results in a row that one transport operation may get

UnitIds == {5, 17}

\* Errors the transport may return from read or write.
TransportErrors == {"Overrun", "Parity"}
NoError == "none"

NaN32 == F32(0, 255, 4194304)
PosInf == F32(0, 255, 0)
NegInf == F32(1, 255, 0)
NegZero == F32(1, 0, 0)
Lit23_5 == F32(0, 131, 3932160)         \* 23.5   (0x41BC0000)
Lit0_05 == F32(0, 122, 5033165)         \* 0.05   (0x3D4CCCCD)
Lit50 == F32(0, 132, 4718592)           \* 50.0   (0x42480000)
Lit10000 == F32(0, 140, 1851392)        \* 10000.0 (0x461C4000)
LitNegHalf == F32(1, 126, 0)            \* -0.5

I16Args == {-32768, -2000, -1999, -1001, -1000, 0, 1000, 1001, 9999, 10000, 32767}
U16Args == {0, 1, 2, 500, 501, 999, 1000, 1999, 2000, 9999, 10000, 65535}
U8Args == {0, 5, 64, 65, 255}
F32Args ==
    {LitZero, NegZero, LitOne, Lit0_05, Lit50, LitNegTenth, LitP_Max, Lit10000,
     LitNegHalf, F32(0, 127, 1), F32(1, 123, 5033166), NaN32, PosInf, NegInf}

SetterArgs(name) ==
    LET ty == Setters[name].ty
    IN  CASE ty = "f32" -> F32Args
          [] ty = "bool" -> BOOLEAN
          [] ty = "i16" -> I16Args
          [] ty = "u16" -> U16Args
          [] ty = "u8" -> U8Args
          [] OTHER -> Variants(ty)

\* Floats the device may hold in a register pair.
DeviceFloats ==
    {IntAsF32(n) : n \in {0, 1, 2, 3, 4, 5, 10, 11, 255, 256, -1, -7, 9999}}
    \cup {Lit23_5, LitNegHalf, NaN32, NegInf, F32(0, 128, 3774874)}

\* Coil bytes the device may return.
CoilBytes == {0, 1, 2, 4, 8, 16, 32, 64, 128, 255}

(***************************************************************************)
(* The device at the other end of the transport                            *)
(***************************************************************************)

BadCrc(frame) ==
    [frame EXCEPT ![Len(frame)] = (frame[Len(frame)] + 1) % 256]

\* The well-formed answers to a request: what a conforming device sends.
NormalFrames(rq) ==
    CASE rq.func = MODBUS_GET_HOLDINGS ->
            {WithCrc(<<rq.unit_id, rq.func, 4>> \o F32ToBeBytes(f)) :
                f \in DeviceFloats}
      [] rq.func = MODBUS_GET_COILS ->
            {WithCrc(<<rq.unit_id, rq.func, 1, b>>) : b \in CoilBytes}
      [] OTHER ->
            {WithCrc(<<rq.unit_id, rq.func>> \o U16ToBeBytes(rq.reg)
                     \o U16ToBeBytes(rq.count))}

OneNormalFrame(rq) == CHOOSE f \in NormalFrames(rq) : TRUE

\* Answers with a valid check value whose byte count is not the one the
\* request calls for.
OddCountFrames(rq) ==
    CASE rq.func = MODBUS_GET_HOLDINGS ->
            {WithCrc(<<rq.unit_id, rq.func, 0>>),
             WithCrc(<<rq.unit_id, rq.func, 2, 65, 188>>),
             WithCrc(<<rq.unit_id, rq.func, 6, 65, 188, 0, 0, 0, 7>>)}
      [] rq.func = MODBUS_GET_COILS ->
            {WithCrc(<<rq.unit_id, rq.func, 0>>),
             WithCrc(<<rq.unit_id, rq.func, 2, 33, 1>>)}
      [] OTHER -> {}

\* Answers the codec rejects, and answers cut short.
RejectedFrames(rq) ==
    {BadCrc(OneNormalFrame(rq)),
     WithCrc(<<rq.unit_id, rq.func + 128, 2>>),
     BadCrc(WithCrc(<<rq.unit_id, rq.func + 128, 2>>)),
     WithCrc(<<(rq.unit_id + 1) % 256>> \o Tail(OneNormalFrame(rq))),
     WithCrc(<<rq.unit_id, 4, 2, 0, 7>>),
     WithCrc(<<rq.unit_id, 43, 14, 1>>),
     <<rq.unit_id, 3, 251>>}

\* The last one is the prefix of the longest frame the codec accepts.
TruncatedFrames(rq) ==
    {SubSeq(OneNormalFrame(rq), 1, k) : k \in {2, 4}}
    \cup {<<rq.unit_id, 3, 250>>}

DeviceFrames(rq) ==
    NormalFrames(rq) \cup OddCountFrames(rq) \cup RejectedFrames(rq)
    \cup TruncatedFrames(rq)

(***************************************************************************)
(* The transaction: get_holding, set_holding, get_coils over the transport *)
(***************************************************************************)

Zeros(n) == [i \in 1..n |-> 0]

ResizeShort(buf, len) ==
    IF len <= 3 THEN buf \o Zeros(len - Len(buf))
    ELSE SubSeq(buf \o Zeros(len), 1, len - 1)

\* response.resize(len, 0) on a heapless::Vec<u8, 256>: truncate or pad with 0;
\* a length over the capacity leaves the vector as it is.
Resize(buf, len) ==
    IF len > 256 THEN buf
    ELSE IF len <= Len(buf) THEN SubSeq(buf, 1, len)
    ELSE buf \o Zeros(len - Len(buf))

IsHoldingGetter(name) == name \in DOMAIN HoldingGetters
IsCoilGetter(name) == name \in DOMAIN CoilGetters
IsSetter(name) == name \in DOMAIN Setters

\* get_holding after the last response byte: parse_u16 into `data`, then
\* values_to_f32(data[0], data[1]) (indexing a missing word panics), then the
\* getter's own conversion.
get_holding_finish(name, rq, buf) ==
    CHOOSE r \in
        {IF p.err # "ok" THEN ModbusError(p.err)
         ELSE IF Len(p.data) < 2 THEN Panicked
         ELSE GetterConvert(name, values_to_f32(p.data[1], p.data[2])) :
            p \in {parse_u16(rq, buf)}} : TRUE

set_holding_finish_unchecked(rq, buf) == Ok("()", "()")

\* set_holding after the last response byte: parse_ok, then Ok(()).
set_holding_finish(rq, buf) ==
    LET st == parse_ok(rq, buf)
    IN  IF st # "ok" THEN ModbusError(st) ELSE Ok("()", "()")

\* get_coils after the last response byte: parse_ok, then the byte count, then
\* the payload byte.
get_coils_finish(name, rq, buf) ==
    LET st == parse_ok(rq, buf)
        byte_count == buf[3]
    IN  IF st # "ok" THEN ModbusError(st)
        ELSE IF byte_count # 1 THEN CoilConvert(name, 0)
        ELSE CoilConvert(name, buf[4])

Finish(c, rq, buf) ==
    IF IsHoldingGetter(c.name) THEN get_holding_finish(c.name, rq, buf)
    ELSE IF IsCoilGetter(c.name) THEN get_coils_finish(c.name, rq, buf)
    ELSE set_holding_finish(rq, buf)

NoArg == "none"

\* The part of a call up to the first transport operation.
Begin(name, arg, g) ==
    /\ call' = [name |-> name, arg |-> arg]
    /\ mreq' = g.mreq
    /\ request' = g.frame
    /\ tx' = <<>>
    /\ response' = <<>>
    /\ nread' = 0
    /\ answered' = FALSE
    /\ result' = NoResult
    /\ pc' = "write"
    /\ ncalls' = ncalls + 1
    /\ frame_len' = 0 /\ answer' = <<>> /\ polls' = 0 /\ port_err' = NoError
    /\ UNCHANGED <<unit_id, rx>>

\* A call that returns before any transport operation.
Return(name, arg, res) ==
    /\ call' = [name |-> name, arg |-> arg]
    /\ mreq' = NewRequest(unit_id)
    /\ request' = <<>>
    /\ tx' = <<>>
    /\ response' = <<>>
    /\ nread' = 0
    /\ answered' = FALSE
    /\ result' = res
    /\ pc' = "done"
    /\ ncalls' = ncalls + 1
    /\ frame_len' = 0 /\ answer' = <<>> /\ polls' = 0 /\ port_err' = NoError
    /\ UNCHANGED <<unit_id, rx>>

CanCall == pc = "ready" /\ ncalls < MaxCalls /\ Len(rx) <= MaxStale

\* get_pv, get_out, get_cv, ... : get_holding(reg) up to write_all.
CallHoldingGetter ==
    /\ CanCall
    /\ \E name \in DOMAIN HoldingGetters :
          Begin(name, NoArg,
                generate_get_holdings(NewRequest(unit_id),
                                      HoldingGetters[name].reg, 2))
    /\ UNCHANGED codecVars

\* get_j1_status, get_status: get_coils(reg, count) up to write_all.
CallCoilGetter ==
    /\ CanCall
    /\ \E name \in DOMAIN CoilGetters :
          IF CoilGetters[name].count <= 8
          THEN Begin(name, NoArg,
                     generate_get_coils(NewRequest(unit_id),
                                        CoilGetters[name].reg,
                                        CoilGetters[name].count))
          ELSE Return(name, NoArg, Panicked)
    /\ UNCHANGED codecVars

\* set_out, set_cv, set_sv, ... : the range check, then set_holding(reg, val)
\* up to write_all.
CallSetter ==
    /\ CanCall
    /\ \E name \in DOMAIN Setters : \E arg \in SetterArgs(name) :
          IF RangeOk(name, arg)
          THEN Begin(name, arg,
                     generate_set_holdings_bulk(
                         NewRequest(unit_id), Setters[name].reg,
                         f32_to_values(SetterF32(name, arg))))
          ELSE Return(name, arg, UnexpectedValue(SetterF32(name, arg)))
    /\ UNCHANGED codecVars

\* write_all: the transport accepts the next request byte. After the last one
\* the response buffer is cleared and resized to the 3-byte prefix.
WriteByte ==
    /\ pc = "write"
    /\ tx' = Append(tx, request[Len(tx) + 1])
    /\ IF Len(tx) + 1 = Len(request)
       THEN pc' = "prefix" /\ response' = Resize(<<>>, 3)
       ELSE UNCHANGED <<pc, response>>
    /\ polls' = 0
    /\ UNCHANGED port_err
    /\ UNCHANGED <<unit_id, call, mreq, request, nread, rx, answered, result,
                   ncalls, frame_len, answer>>
    /\ UNCHANGED codecVars

\* write_all: port.write answers WouldBlock and nb::block! calls it again.
WriteWouldBlock ==
    /\ pc = "write"
    /\ polls < MaxWouldBlock
    /\ polls' = polls + 1
    /\ UNCHANGED port_err
    /\ UNCHANGED <<unit_id, pc, call, mreq, request, tx, response, nread, rx,
                   answered, result, ncalls, frame_len, answer>>
    /\ UNCHANGED codecVars

WriteFailSwallowed ==
    /\ pc = "write"
    /\ \E e \in TransportErrors : port_err' = e
    /\ pc' = "prefix"
    /\ response' = Resize(<<>>, 3)
    /\ UNCHANGED <<unit_id, call, mreq, request, tx, nread, rx, answered,
                   result, ncalls, frame_len, answer, polls>>
    /\ UNCHANGED codecVars

\* write_all: the transport fails on the next request byte.
WriteFail ==
    /\ pc = "write"
    /\ pc' = "done"
    /\ \E e \in TransportErrors : port_err' = e /\ result' = SerialError(e)
    /\ UNCHANGED <<unit_id, call, mreq, request, tx, response, nread, rx,
                   answered, ncalls, frame_len, answer, polls>>
    /\ UNCHANGED codecVars

\* The device, having received the whole request, puts its answer on the line.
DeviceRespond ==
    /\ pc \in {"prefix", "rest"}
    /\ ~answered
    /\ \E frame \in DeviceFrames(mreq) : rx' = rx \o frame /\ answer' = frame
    /\ answered' = TRUE
    /\ UNCHANGED <<unit_id, pc, call, mreq, request, tx, response, nread,
                   result, ncalls, frame_len, polls, port_err>>
    /\ UNCHANGED codecVars

\* read_exact: the transport delivers the next byte. The byte that completes
\* the prefix is followed by the length inference and the resize; the byte
\* that completes the frame is followed by validation and decoding.
ReadByte ==
    /\ pc \in {"prefix", "rest"}
    /\ rx # <<>>
    /\ rx' = Tail(rx)
    /\ nread' = nread + 1
    /\ polls' = 0
    /\ UNCHANGED port_err
    /\ LET buf == [response EXCEPT ![nread + 1] = Head(rx)]
           guess == guess_response_frame_len(buf)
       IN  IF nread + 1 < Len(response)
           THEN response' = buf /\ UNCHANGED <<pc, result, frame_len>>
           ELSE IF pc = "prefix" /\ ~guess.ok
           THEN response' = buf /\ pc' = "done"
                /\ result' = ModbusError(guess.err)
                /\ UNCHANGED frame_len
           ELSE IF pc = "prefix" /\ Len(Resize(buf, guess.len)) > 3
           THEN response' = Resize(buf, guess.len) /\ pc' = "rest"
                /\ frame_len' = guess.len
                /\ UNCHANGED result
           ELSE response' = (IF pc = "prefix" THEN Resize(buf, guess.len)
                             ELSE buf)
                /\ frame_len' = (IF pc = "prefix" THEN guess.len ELSE frame_len)
                /\ pc' = "done"
                /\ result' = Finish(call, mreq, response')
    /\ UNCHANGED <<unit_id, call, mreq, request, tx, answered, ncalls, answer>>
    /\ UNCHANGED codecVars

\* read_exact: no byte has arrived, port.read answers WouldBlock and nb::block!
\* calls it again.
ReadWouldBlock ==
    /\ pc \in {"prefix", "rest"}
    /\ rx = <<>>
    /\ polls < MaxWouldBlock
    /\ polls' = polls + 1
    /\ UNCHANGED port_err
    /\ UNCHANGED <<unit_id, pc, call, mreq, request, tx, response, nread, rx,
                   answered, result, ncalls, frame_len, answer>>
    /\ UNCHANGED codecVars

\* read_exact: no byte arrives and the transport gives up with an error.
ReadFail ==
    /\ pc \in {"prefix", "rest"}
    /\ rx = <<>>
    /\ pc' = "done"
    /\ \E e \in TransportErrors : port_err' = e /\ result' = SerialError(e)
    /\ UNCHANGED <<unit_id, call, mreq, request, tx, response, nread, rx,
                   answered, ncalls, frame_len, answer, polls>>
    /\ UNCHANGED codecVars

DropAdoptingUnitId ==
    /\ pc = "done"
    /\ pc' = "ready"
    /\ unit_id' = (IF call.name = "set_unit_id" /\ result.kind = "Ok"
                   THEN call.arg ELSE unit_id)
    /\ call' = [name |-> "new", arg |-> NoArg]
    /\ mreq' = NewRequest(unit_id')
    /\ request' = <<>>
    /\ tx' = <<>>
    /\ response' = <<>>
    /\ nread' = 0
    /\ answered' = FALSE
    /\ result' = NoResult
    /\ frame_len' = 0 /\ answer' = <<>> /\ polls' = 0 /\ port_err' = NoError
    /\ UNCHANGED <<rx, ncalls>>
    /\ UNCHANGED codecVars

\* The call has returned: the caller takes the result and the locals of the
\* call (request, response, mreq) are dropped.
Drop ==
    /\ pc = "done"
    /\ pc' = "ready"
    /\ call' = [name |-> "new", arg |-> NoArg]
    /\ mreq' = NewRequest(unit_id)
    /\ request' = <<>>
    /\ tx' = <<>>
    /\ response' = <<>>
    /\ nread' = 0
    /\ answered' = FALSE
    /\ result' = NoResult
    /\ frame_len' = 0 /\ answer' = <<>> /\ polls' = 0 /\ port_err' = NoError
    /\ UNCHANGED <<unit_id, rx, ncalls>>
    /\ UNCHANGED codecVars

Init ==
    /\ unit_id \in UnitIds
    /\ pc = "ready"
    /\ call = [name |-> "new", arg |-> NoArg]
    /\ mreq = NewRequest(unit_id)
    /\ request = <<>>
    /\ tx = <<>>
    /\ response = <<>>
    /\ nread = 0
    /\ rx = <<>>
    /\ answered = FALSE
    /\ result = NoResult
    /\ ncalls = 0
    /\ frame_len = 0 /\ answer = <<>> /\ polls = 0 /\ port_err = NoError
    /\ cpc = "off"
    /\ cin = NoArg
    /\ cmid = NoArg
    /\ cout = NoArg

Next ==
    \/ CallHoldingGetter
    \/ CallCoilGetter
    \/ CallSetter
    \/ WriteByte
    \/ WriteWouldBlock
    \/ WriteFail
    \/ DeviceRespond
    \/ ReadByte
    \/ ReadWouldBlock
    \/ ReadFail
    \/ Drop

Spec == Init /\ [][Next]_vars

\* The transport under the assumption that no operation answers WouldBlock
\* forever: the loop of nb::block! keeps polling, so each pending write ends in
\* an accepted byte or an error, and each pending read in a byte or an error.
SpecLive ==
    /\ Init
    /\ [][Next]_vars
    /\ WF_vars(WriteByte \/ WriteFail)
    /\ WF_vars(ReadByte \/ ReadFail)

(***************************************************************************)
(* The numeric codec and the enumerations on their own: an input is drawn, *)
(* encoded to its wire form and decoded again                              *)
(***************************************************************************)

CodecFloats ==
    {F32(sg, ex, mn) : sg \in {0, 1}, ex \in {0, 1, 123, 127, 140, 254, 255},
                       mn \in {0, 1, 255, 65536, 1851392, 4194304, 8388607}}

CodecWords == {0, 1, 128, 255, 256, 16384, 17948, 32640, 32768, 65280, 65535}

\* op says which field is the input: f (a float), w (two words), x (a variant).
CodecInput(op, f, w, x) == [op |-> op, f |-> f, w |-> w, x |-> x]

CodecInputs ==
    {CodecInput("f32", f, <<0, 0>>, Variant("Filter", "Disabled")) :
        f \in CodecFloats}
    \cup {CodecInput("words", LitZero, <<d0, d1>>, Variant("Filter", "Disabled")) :
            d0 \in CodecWords, d1 \in CodecWords}
    \cup {CodecInput("enum", LitZero, <<0, 0>>, x) : x \in AllVariants}

InitCodec ==
    /\ unit_id = 5
    /\ pc = "ready"
    /\ call = [name |-> "new", arg |-> NoArg]
    /\ mreq = NewRequest(unit_id)
    /\ request = <<>>
    /\ tx = <<>>
    /\ response = <<>>
    /\ nread = 0
    /\ rx = <<>>
    /\ answered = FALSE
    /\ result = NoResult
    /\ ncalls = 0
    /\ frame_len = 0 /\ answer = <<>> /\ polls = 0 /\ port_err = NoError
    /\ cin \in CodecInputs
    /\ cpc = IF cin.op = "words" THEN "wire" ELSE "in"
    /\ cmid = IF cin.op = "words" THEN cin.w ELSE NoArg
    /\ cout = NoArg

\* f32_to_values(v), or f32::from(variant).
CodecEncode ==
    /\ cpc = "in"
    /\ cmid' = IF cin.op = "f32" THEN f32_to_values(cin.f) ELSE EnumInto(cin.x)
    /\ cpc' = "wire"
    /\ UNCHANGED <<cin, cout>>
    /\ UNCHANGED driverVars

\* values_to_f32(d0, d1), or T::try_from(value).
CodecDecode ==
    /\ cpc = "wire"
    /\ cout' = IF cin.op = "enum" THEN EnumTryFrom(cin.x.ty, cmid)
               ELSE values_to_f32(cmid[1], cmid[2])
    /\ cpc' = "out"
    /\ UNCHANGED <<cin, cmid>>
    /\ UNCHANGED driverVars

NextCodec ==
    \/ CodecEncode
    \/ CodecDecode

SpecCodec == InitCodec /\ [][NextCodec]_vars

(***************************************************************************)
(* A setter followed by the getter of the same parameter, each call run to *)
(* its end over a transport that delivers every byte, against a device     *)
(* that keeps the register pair it is sent                                 *)
(***************************************************************************)

\* The device executes a write-multiple-registers request: the address it
\* writes at and the two words it stores there.
DeviceWrite(frame) ==
    [reg |-> U16FromBeBytes(<<frame[3], frame[4]>>),
     words |-> <<U16FromBeBytes(<<frame[8], frame[9]>>),
                 U16FromBeBytes(<<frame[10], frame[11]>>)>>]

\* The device answers a read-holding-registers request for two words: the
\* words it holds at the address asked for (zeros at any other address).
DeviceRead(held, frame) ==
    LET reg == U16FromBeBytes(<<frame[3], frame[4]>>)
        words == IF reg = held.reg THEN held.words ELSE <<0, 0>>
    IN  WithCrc(<<frame[1], frame[2], 4>>
                \o U16ToBeBytes(words[1]) \o U16ToBeBytes(words[2]))

InitPair ==
    /\ unit_id \in UnitIds
    /\ pc = "ready"
    /\ call = [name |-> "new", arg |-> NoArg]
    /\ mreq = NewRequest(unit_id)
    /\ request = <<>>
    /\ tx = <<>>
    /\ response = <<>>
    /\ nread = 0
    /\ rx = <<>>
    /\ answered = FALSE
    /\ result = NoResult
    /\ ncalls = 0
    /\ frame_len = 0 /\ answer = <<>> /\ polls = 0 /\ port_err = NoError
    /\ \E name \in DOMAIN Setters : \E arg \in SetterArgs(name) :
          cin = [op |-> "pair", name |-> name, arg |-> arg]
    /\ cpc = "in"
    /\ cmid = NoArg
    /\ cout = NoArg

\* The setter cin.name called with cin.arg: the range check, then the request
\* set_holding generates.
PairSet ==
    /\ cpc = "in"
    /\ IF RangeOk(cin.name, cin.arg)
       THEN /\ cmid' = generate_set_holdings_bulk(
                           NewRequest(unit_id), Setters[cin.name].reg,
                           f32_to_values(SetterF32(cin.name, cin.arg)))
            /\ cpc' = "request"
            /\ UNCHANGED cout
       ELSE /\ cout' = UnexpectedValue(SetterF32(cin.name, cin.arg))
            /\ cpc' = "rejected"
            /\ UNCHANGED cmid
    /\ UNCHANGED cin
    /\ UNCHANGED driverVars

\* The device stores the words of the request and acknowledges it; set_holding
\* validates the acknowledgement and the setter returns.
PairStore ==
    /\ cpc = "request"
    /\ cmid' = DeviceWrite(cmid.frame)
    /\ cout' = set_holding_finish(cmid.mreq, OneNormalFrame(cmid.mreq))
    /\ cpc' = "held"
    /\ UNCHANGED cin
    /\ UNCHANGED driverVars

\* The getter of the same parameter: get_holding generates its request, the
\* device answers with the words it holds, and the getter converts them.
PairGet ==
    /\ cpc = "held"
    /\ \E getter \in DOMAIN SetterOf :
          /\ SetterOf[getter] = cin.name
          /\ LET g == generate_get_holdings(NewRequest(unit_id),
                                            HoldingGetters[getter].reg, 2)
             IN  cout' = get_holding_finish(getter, g.mreq,
                                            DeviceRead(cmid, g.frame))
    /\ cpc' = "out"
    /\ UNCHANGED <<cin, cmid>>
    /\ UNCHANGED driverVars

NextPair ==
    \/ PairSet
    \/ PairStore
    \/ PairGet

SpecPair == InitPair /\ [][NextPair]_vars

(***************************************************************************)
(* Properties                                                              *)
(***************************************************************************)

RECURSIVE Bits(_, _)
\* The low `width` bits of n, most significant first.
Bits(n, width) ==
    IF width = 0 THEN <<>> ELSE Bits(n \div 2, width - 1) \o <<n % 2>>

\* The 32-bit pattern of a float, most significant bit first.
F32Pattern(f) == Bits(f.s, 1) \o Bits(f.e, 8) \o Bits(f.m, 23)

\* C1: for every f32 bit pattern v (zeros, subnormals, NaN payloads and
\* infinities included), values_to_f32(f32_to_values(v)) has the bit pattern
\* of v.
C1_RoundTrip ==
    (cpc = "out" /\ cin.op = "f32") =>
        /\ cout = cin.f
        /\ F32Pattern(cout) = F32Pattern(cin.f)

\* A negative signalling NaN with the smallest payload went through the round trip.
C1_Witness ==
    /\ cpc = "out" /\ cin.op = "f32"
    /\ cin.f = F32(1, 255, 1)
    /\ cmid = <<65408, 1>>

\* C2: set_p(0.05) returns an error and no byte is written; set_p(50.0) writes
\* its request and returns Ok when the acknowledgement is valid.
C2_SetPRange ==
    call.name = "set_p" =>
        /\ call.arg = Lit0_05 =>
              /\ tx = <<>>
              /\ pc = "done" => result.kind = "UnexpectedValue"
        /\ (call.arg = Lit50 /\ pc = "done" /\ nread = 8
            /\ parse_ok(mreq, response) = "ok") =>
              /\ tx = request
              /\ result.kind = "Ok"

\* C3: a coil read whose response passes validation but declares a byte count
\* other than 1 returns an error.
C3_CoilByteCount ==
    (/\ IsCoilGetter(call.name)
     /\ pc = "done"
     /\ nread >= 5 /\ nread = Len(response)
     /\ parse_ok(mreq, response) = "ok"
     /\ response[3] # 1) =>
        result.kind \in {"ModbusError", "UnexpectedValue", "SerialError"}

EnumGetters == {n \in DOMAIN HoldingGetters : HoldingGetters[n].conv \in EnumTypes}

\* The integer part of f is an ordinal of the enumeration ty.
IntPartIsOrdinal(ty, f) ==
    /\ f.e # 255
    /\ F32Mag(f) < Len(TryFromArms[ty])
    /\ f.s = 1 => F32Mag(f) = 0

\* The float carried by a read-holdings response with two words.
ResponseFloat(buf) ==
    F32FromBeBytes(<<buf[4], buf[5], buf[6], buf[7]>>)

\* C4: an enumerated getter answered with a float whose integer part is not an
\* ordinal of its enumeration returns UnexpectedValue, never a variant.
C4_EnumRejects ==
    (/\ call.name \in EnumGetters
     /\ pc = "done"
     /\ result.kind \in {"Ok", "UnexpectedValue"}
     /\ ~IntPartIsOrdinal(HoldingGetters[call.name].conv, ResponseFloat(response)))
    => result = UnexpectedValue(ResponseFloat(response))

\* C5: decoding the wire value of a variant gives the variant back, and no
\* other variant of the enumeration has the same wire value.
C5_EnumRoundTrip ==
    (cin.op = "enum" /\ cpc \in {"wire", "out"}) =>
        /\ \A y \in Variants(cin.x.ty) : y # cin.x => EnumInto(y) # cmid
        /\ AsU8(cmid) = IntoArms[cin.x.ty][cin.x.name] /\ cmid = IntAsF32(AsU8(cmid))
        /\ cpc = "out" => (cout.ok /\ cout.v = cin.x)

C5_Witness ==
    /\ cin.op = "enum" /\ cpc = "out"
    /\ cin.x = Variant("InputType", "CU50")
    /\ cout.ok /\ cout.v = cin.x

\* The arguments the range check of a setter turns away.
FailsCheck(name, arg) ==
    CASE name \in {"set_out", "set_souf"} ->
            ~(F32Ge(arg, LitZero) /\ F32Le(arg, LitOne))
      [] name = "set_p" -> ~(F32Ge(arg, LitNegTenth) /\ F32Le(arg, LitP_Max))
      [] name \in {"set_sv", "set_j1_on_temp", "set_j1_off_temp"} ->
            arg < -1999 \/ arg > 9999
      [] name = "set_i" -> arg < 2 \/ arg > 1999
      [] name = "set_d" -> arg > 999
      [] name = "set_bb" -> arg < 1 \/ arg > 1999
      [] name = "set_control_cycle" -> arg < 1 \/ arg > 500
      [] name = "set_hysteresis" -> arg > 9999
      [] name = "set_intput_offset" -> arg < -1000 \/ arg > 1000
      [] name = "set_unit_id" -> arg > 64
      [] OTHER -> FALSE

\* C6: a range-checked setter called with an argument that fails its check
\* returns UnexpectedValue carrying the argument, with no transport write and
\* no transport read; and only such a call returns UnexpectedValue from a setter.
C6_RejectBeforeTransport ==
    IsSetter(call.name) =>
        /\ (call.name \in CheckedSetters /\ FailsCheck(call.name, call.arg)) =>
              /\ pc = "done"
              /\ result = UnexpectedValue(SetterF32(call.name, call.arg))
              /\ request = <<>> /\ tx = <<>>
              /\ nread = 0 /\ response = <<>>
        /\ result.kind = "UnexpectedValue" =>
              (call.name \in CheckedSetters /\ FailsCheck(call.name, call.arg))

C6_Witness ==
    /\ call.name = "set_control_cycle" /\ call.arg = 501
    /\ pc = "done"
    /\ result = UnexpectedValue(IntAsF32(501))
    /\ tx = <<>> /\ nread = 0

\* C7: set_sv(v) goes on to write its request exactly when -1999 <= v <= 9999;
\* outside that range it returns UnexpectedValue and writes nothing. (A
\* transport failure may still cut the write short.)
C7_SetSvRange ==
    call.name = "set_sv" =>
        IF -1999 <= call.arg /\ call.arg <= 9999
        THEN /\ Len(request) = 13
             /\ result.kind # "UnexpectedValue"
             /\ \/ tx = request
                \/ pc = "write"
                \/ pc = "done" /\ result.kind = "SerialError" /\ nread = 0
        ELSE /\ tx = <<>> /\ request = <<>>
             /\ pc = "done" /\ result.kind = "UnexpectedValue"

C7_Witness ==
    /\ call.name = "set_sv" /\ call.arg = -1999
    /\ tx = request /\ Len(tx) = 13
    /\ pc = "done" /\ result.kind = "Ok"

\* The value returned is the number 23.5 (whatever numeric type carries it).
Is23_5(r) ==
    /\ r.kind = "Ok"
    /\ \/ r.ty = "f32" /\ F32Eq(r.val, Lit23_5)
       \/ r.ty \in {"u16", "i16", "u8"} /\ F32Eq(IntAsF32(r.val), Lit23_5)

\* C8: get_pv on unit 5, answered by a valid frame whose two words encode
\* 23.5, returns 23.5.
C8_GetPv23_5 ==
    (/\ call.name = "get_pv" /\ unit_id = 5
     /\ pc = "done"
     /\ response = WithCrc(<<5, 3, 4, 65, 188, 0, 0>>)) =>
        Is23_5(result)

IsPrefix(a, b) == Len(a) <= Len(b) /\ a = SubSeq(b, 1, Len(a))

\* C9: a holding-register getter writes one request and nothing else: unit id
\* of the handle, function 0x03, the parameter's address, count 2, CRC; for
\* get_pv on unit 5 the bytes 05 03 01 64 00 02 85 AC.
C9_GetHoldingRequest ==
    IsHoldingGetter(call.name) =>
        /\ Len(request) = 8
        /\ request[1] = unit_id
        /\ request[2] = 3
        /\ request[3] * 256 + request[4] = HoldingGetters[call.name].reg
        /\ request[5] * 256 + request[6] = 2
        /\ request[7] + 256 * request[8] = calc_crc16(request, 6)
        /\ IsPrefix(tx, request)
        /\ (pc \in {"prefix", "rest"} \/ nread > 0) => tx = request
        /\ (pc = "done" /\ result.kind # "SerialError") => tx = request
        /\ (call.name = "get_pv" /\ unit_id = 5) =>
              request = <<5, 3, 1, 100, 0, 2, 133, 172>>

C9_Witness ==
    /\ call.name = "get_pv" /\ unit_id = 5
    /\ pc = "done" /\ result.kind = "Ok"
    /\ tx = <<5, 3, 1, 100, 0, 2, 133, 172>>

\* C10: values_to_f32(hi, lo) is the float whose 32-bit pattern is the 16 bits
\* of hi followed by the 16 bits of lo (hi * 65536 + lo); the words 0x461C,
\* 0x4000 decode to 10000.0.
C10_WordsToF32 ==
    (cpc = "out" /\ cin.op = "words") =>
        /\ F32Pattern(cout) = Bits(cin.w[1], 16) \o Bits(cin.w[2], 16)
        /\ cin.w = <<17948, 16384>> => cout = IntAsF32(10000)

C10_Witness ==
    /\ cpc = "out" /\ cin.op = "words"
    /\ cin.w = <<17948, 16384>>
    /\ cout = Lit10000

\* C11: f32_to_values(v) is the pair [high 16 bits of v's pattern, low 16 bits
\* of v's pattern], in that order; 10000.0 encodes to the words 0x461C, 0x4000.
C11_F32ToValues ==
    (cin.op = "f32" /\ cpc \in {"wire", "out"}) =>
        /\ Len(cmid) = 2
        /\ Bits(cmid[1], 16) = SubSeq(F32Pattern(cin.f), 1, 16)
        /\ Bits(cmid[2], 16) = SubSeq(F32Pattern(cin.f), 17, 32)
        /\ (cin.f = Lit10000 => cmid = <<17948, 16384>>)

\* 10000.0 has been encoded and not yet decoded.
C11_Witness ==
    /\ cpc = "wire" /\ cin.op = "f32"
    /\ cin.f = Lit10000
    /\ cmid = <<17948, 16384>>

\* The codec's verdict on the response buffer of the call: "ok" or the error
\* kind of guess_response_frame_len, parse_ok or parse_u16.
CodecVerdict ==
    IF frame_len = 0
    THEN (IF guess_response_frame_len(response).ok THEN "ok" ELSE "FrameBroken")
    ELSE IF IsHoldingGetter(call.name) THEN parse_u16(mreq, response).err
    ELSE parse_ok(mreq, response)

\* The call has read every byte it asked the transport for.
ReadComplete ==
    /\ call.name # "new" /\ tx = request /\ request # <<>>
    /\ nread = Len(response) /\ nread >= 3

C12_State ==
    /\ IsPrefix(tx, request)
    /\ (result.kind = "ModbusError" => pc = "done")
    /\ (pc = "done" /\ ReadComplete /\ CodecVerdict # "ok") =>
            result = ModbusError(CodecVerdict)

C12_Step ==
    /\ (pc \in {"write", "prefix", "rest"}) =>
            (request' = request /\ IsPrefix(tx, tx'))
    /\ (pc = "done" /\ result.kind = "ModbusError") =>
            (pc' = "ready" /\ rx' = rx /\ nread' <= nread
             /\ Len(tx') <= Len(tx))

\* C12: within one accessor call at most one request frame is written; when
\* the codec rejects the response (length inference, check value, unit or
\* function echo, exception frame) the call returns ModbusError and makes no
\* further write or read.
C12_NoRetry == [](C12_State) /\ [][C12_Step]_vars

\* A setter whose acknowledgement came with a bad check value has returned.
C12_Witness ==
    /\ pc = "done" /\ IsSetter(call.name)
    /\ ReadComplete /\ frame_len = 8
    /\ result = ModbusError("FrameCRCError")

C13_State ==
    /\ (port_err # NoError) =>
            (pc = "done" /\ result = SerialError(port_err))
    /\ (result.kind = "SerialError") =>
            (port_err # NoError /\ result.err = port_err)
    /\ (pc = "done" /\ result.kind = "SerialError" /\ tx # request) =>
            (nread = 0 /\ response = <<>>)

C13_Step ==
    (pc = "done" /\ result.kind = "SerialError") =>
        (pc' = "ready" /\ rx' = rx /\ nread' <= nread /\ Len(tx') <= Len(tx))

\* C13: a transport error on any single-byte write or read makes the call
\* return SerialError carrying that error, with no further transport write
\* or read in the call; after a write failure no response byte is ever read.
C13_SerialError == [](C13_State) /\ [][C13_Step]_vars

\* The write of the fourth request byte failed and the call has returned.
C13_Witness ==
    /\ pc = "done" /\ result = SerialError("Parity")
    /\ Len(tx) = 3 /\ Len(request) > 3 /\ nread = 0

\* C14: every accessor call ends by returning Ok, SerialError, ModbusError or
\* UnexpectedValue and never aborts; get_holding, given a check-valid
\* read-holdings response with fewer than two words, returns an error.
C14_NeverAborts ==
    /\ (pc = "done") =>
            result.kind \in {"Ok", "SerialError", "ModbusError",
                             "UnexpectedValue"}
    /\ (pc = "done" /\ IsHoldingGetter(call.name) /\ ReadComplete
        /\ frame_len \in {5, 7} /\ parse_response(mreq, response) = "ok") =>
            result.kind \in {"SerialError", "ModbusError", "UnexpectedValue"}

\* The register address in the request frame of the call in progress.
RequestAddress == U16FromBeBytes(<<request[3], request[4]>>)

\* The getter that reads the parameter an accessor is about.
GetterOf(name) ==
    IF IsSetter(name) THEN CHOOSE g \in DOMAIN SetterOf : SetterOf[g] = name
    ELSE name

\* The accessor tables alone: a getter and its setter name one address, and
\* the addresses of distinct holding-register parameters differ.
CatalogAddressesFixed ==
    /\ \A g \in DOMAIN SetterOf :
          /\ IsHoldingGetter(g) /\ IsSetter(SetterOf[g])
          /\ HoldingGetters[g].reg = Setters[SetterOf[g]].reg
    /\ \A s1 \in DOMAIN Setters : \E g \in DOMAIN SetterOf : SetterOf[g] = s1
    /\ \A g1, g2 \in DOMAIN HoldingGetters :
          g1 # g2 => HoldingGetters[g1].reg # HoldingGetters[g2].reg
    /\ \A s1, s2 \in DOMAIN Setters :
          s1 # s2 => Setters[s1].reg # Setters[s2].reg
    /\ HoldingGetters["get_souf"].reg # HoldingGetters["get_control_cycle"].reg
    /\ Setters["set_souf"].reg # Setters["set_control_cycle"].reg

\* C15: each named parameter has one fixed register address: the getter and
\* the setter of a parameter use the same address, no two distinct
\* holding-register parameters share an address, and SOUF (damping constant)
\* and OT (control cycle) are read and written at two different addresses.
C15_FixedAddress ==
    /\ CatalogAddressesFixed
    /\ (request # <<>> /\ ~IsCoilGetter(call.name)) =>
          /\ RequestAddress = HoldingGetters[GetterOf(call.name)].reg
          /\ (GetterOf(call.name) = "get_souf") = (RequestAddress = 4104)
          /\ (GetterOf(call.name) = "get_control_cycle")
                = (RequestAddress = 4106)

\* set_control_cycle has written its request, addressed to 0x100A.
C15_Witness ==
    /\ call.name = "set_control_cycle" /\ pc = "prefix"
    /\ tx = request /\ <<tx[3], tx[4]>> = <<16, 10>>

InCall == pc \in {"write", "prefix", "rest"}

\* The call has returned to its caller with a value of its Result type.
Returned ==
    pc = "done" /\ result.kind \in {"Ok", "SerialError", "ModbusError",
                                     "UnexpectedValue"}

\* C16: when no transport operation would-blocks forever, every accessor call
\* eventually returns, after at most one request's worth of writes and at
\* most 255 byte reads; a read that only ever would-blocks does not let the
\* call return.
C16_Terminates ==
    /\ [](Len(tx) <= Len(request) /\ nread <= 255)
    /\ \A k \in 1..MaxCalls :
          (ncalls = k /\ InCall) ~> (ncalls = k /\ Returned)
    /\ [][(InCall /\ polls' = polls + 1) => (pc' = pc /\ result' = result)]_vars

C17_State ==
    /\ (nread > 0) => (tx = request /\ request # <<>>)
    /\ (pc = "write") => (nread = 0 /\ frame_len = 0)
    /\ (pc = "prefix") => (nread < 3 /\ frame_len = 0)
    /\ (pc = "rest") => (3 <= nread /\ nread < frame_len)
    /\ (frame_len > 0) => (nread >= 3 /\ Len(response) = frame_len)
    /\ (pc = "done" /\ frame_len > 0 /\ result.kind # "SerialError") =>
            nread = frame_len

C17_Step ==
    /\ (InCall /\ nread > 0) => tx' = tx
    /\ (nread' > nread) => (tx' = tx /\ tx = request)
    /\ (frame_len = 0 /\ frame_len' > 0) => (nread = 2 /\ nread' = 3)
    /\ (pc = "prefix" /\ pc' = "done" /\ result'.kind = "ModbusError") =>
            (nread = 2 /\ nread' = 3)

\* C17: in every transaction all request bytes are written before the first
\* response byte is read, no byte is written after the first read, exactly 3
\* bytes are read before the frame length is inferred, and a call that reaches
\* validation has read as many bytes as the inferred frame length.
C17_Framing == [](C17_State) /\ [][C17_Step]_vars

\* A getter validated a 9-byte response after 8 bytes written and 9 read.
C17_Witness ==
    /\ pc = "done" /\ result.kind = "Ok" /\ IsHoldingGetter(call.name)
    /\ Len(tx) = 8 /\ tx = request
    /\ frame_len = 9 /\ nread = 9

\* The two words carried by the write request of the call in progress.
RequestWords ==
    <<U16FromBeBytes(<<request[8], request[9]>>),
      U16FromBeBytes(<<request[10], request[11]>>)>>

\* C18: a setter that passes its range check writes one
\* write-multiple-holding-registers request at the parameter's address
\* carrying exactly the two words f32_to_values(value); it returns Ok only if
\* the full response frame was read and accepted by the validator, and a
\* rejected acknowledgement yields ModbusError.
C18_SetterRequest ==
    (IsSetter(call.name) /\ RangeOk(call.name, call.arg)) =>
        /\ Len(request) = 13
        /\ SubSeq(request, 1, 2) = <<unit_id, 16>>
        /\ RequestAddress = Setters[call.name].reg
        /\ SubSeq(request, 5, 7) = <<0, 2, 4>>
        /\ RequestWords = f32_to_values(SetterF32(call.name, call.arg))
        /\ (pc = "write") =>
                calc_crc16(request, 11) = U16FromLeBytes(SubSeq(request, 12, 13))
        /\ IsPrefix(tx, request)
        /\ (pc = "done" /\ result.kind = "Ok") =>
                /\ tx = request
                /\ frame_len = 8 /\ nread = 8 /\ response = answer
                /\ parse_ok(mreq, response) = "ok"
        /\ (pc = "done" /\ ReadComplete /\ frame_len > 0
            /\ parse_ok(mreq, response) # "ok") =>
                result = ModbusError(parse_ok(mreq, response))

\* set_sv(1000) returned Ok: 1000.0 went out as 0x447A, 0x0000 to address 0.
C18_Witness ==
    /\ call.name = "set_sv" /\ call.arg = 1000
    /\ pc = "done" /\ result.kind = "Ok"
    /\ SubSeq(tx, 3, 11) = <<0, 0, 0, 2, 4, 68, 122, 0, 0>>

\* The six flags of a Status, in the order of their bits 0..5.
StatusFlags(st) ==
    <<autotune_mode(st), manual_mode(st), cooling_mode(st), setting_mode(st),
      anomaly(st), alarm1(st)>>

\* b with bit i flipped.
FlipBit(b, i) == IF (b \div 2 ^ i) % 2 = 1 THEN b - 2 ^ i ELSE b + 2 ^ i

\* Flag j is bit j of b; flipping bit i changes flag i and no other flag, and
\* flipping bit 6 or 7 changes none.
FlagsReadBits(b) ==
    /\ \A j \in 1..6 :
          StatusFlags(Status(b))[j] = ((b \div 2 ^ (j - 1)) % 2 = 1)
    /\ \A i \in 0..7 : \A j \in 1..6 :
          (StatusFlags(Status(FlipBit(b, i)))[j] # StatusFlags(Status(b))[j])
            = (i = j - 1)

AllBytesReadBits == \A b \in 0..255 : FlagsReadBits(b)

\* C19: for every coil byte b returned by get_status the six Status flags
\* read six distinct fixed bits of b (autotune_mode 0, manual_mode 1,
\* cooling_mode 2, setting_mode 3, anomaly 4, alarm1 5): flipping one of them
\* changes exactly that flag, and bits 6 and 7 change no flag.
C19_StatusBits ==
    (pc = "done" /\ call.name = "get_status" /\ result.kind = "Ok") =>
        /\ result.ty = "Status"
        /\ (parse_ok(mreq, response) = "ok" /\ response[3] = 1) =>
                result.val = Status(response[4])
        /\ FlagsReadBits(result.val.status)
        /\ AllBytesReadBits

\* get_status returned the byte 0x20: alarm1 is the only flag set.
C19_Witness ==
    /\ pc = "done" /\ call.name = "get_status" /\ result.kind = "Ok"
    /\ Len(answer) = 6 /\ answer[4] = 32 /\ result.val.status = 32
    /\ StatusFlags(result.val) = <<FALSE, FALSE, FALSE, FALSE, FALSE, TRUE>>

\* A well-framed response to the request rq: the unit's normal response (with
\* the byte count the request calls for) or its exception response, complete,
\* whatever its check value.
IsWellFramed(f, rq) ==
    /\ Len(f) >= 5
    /\ f[1] = rq.unit_id
    /\ \/ f[2] = rq.func + 128 /\ Len(f) = 5
       \/ /\ f[2] = rq.func
          /\ CASE rq.func = MODBUS_GET_HOLDINGS ->
                    f[3] = 2 * rq.count /\ Len(f) = f[3] + 5
               [] rq.func = MODBUS_GET_COILS ->
                    f[3] = (rq.count + 7) \div 8 /\ Len(f) = f[3] + 5
               [] OTHER -> Len(f) = 8

C20_State ==
    (answer # <<>> /\ IsWellFramed(answer, mreq)) =>
        /\ SubSeq(response, 1, nread) = SubSeq(answer, 1, nread)
        /\ rx = SubSeq(answer, nread + 1, Len(answer))
        /\ (pc = "done") =>
                (response = answer /\ rx = <<>>
                 /\ result.kind \in {"Ok", "ModbusError", "UnexpectedValue"})

C20_Step ==
    /\ (pc = "done" /\ (answer = <<>> \/ IsWellFramed(answer, mreq))
        /\ pc' = "ready") => (rx = <<>> /\ rx' = <<>>)
    /\ (pc = "ready" /\ pc' # "ready") => rx' = rx

C21_SetGetRoundTrip ==
    /\ (cpc = "rejected") => ~RangeOk(cin.name, cin.arg)
    /\ (cpc \in {"request", "held", "out"}) => RangeOk(cin.name, cin.arg)
    /\ (cpc \in {"held", "out"}) =>
            /\ cmid.reg = Setters[cin.name].reg
            /\ cmid.words = f32_to_values(SetterF32(cin.name, cin.arg))
    /\ (cpc = "held") => cout = Ok("()", "()")
    /\ (cpc = "out") => cout = Ok(Setters[cin.name].ty, cin.arg)

\* set_intput_offset(-1000) put 0xC47A, 0x0000 into the device and
\* get_input_offset returned -1000.
C21_Witness ==
    /\ cpc = "out" /\ cin.name = "set_intput_offset" /\ cin.arg = -1000
    /\ cmid = [reg |-> PSB, words |-> <<50298, 0>>]
    /\ cout = Ok("i16", -1000)

\* Every request of the handle carries the unit id the handle holds.
C22_State ==
    /\ mreq.unit_id = unit_id
    /\ (request # <<>>) => request[1] = unit_id

C22_Step == unit_id' = unit_id

\* set_unit_id(n) has returned Ok on a handle that holds the unit id u, for
\* some n other than u.
SetUnitIdDone(u) ==
    /\ unit_id = u /\ pc = "done"
    /\ call.name = "set_unit_id" /\ call.arg # u
    /\ result.kind = "Ok"

\* C22: the unit id held by the handle never changes after new(): no accessor
\* modifies it, and after a successful set_unit_id(n) every later request is
\* still addressed to the unit id given at construction, not to n.
C22_UnitIdFixed ==
    /\ [](C22_State)
    /\ [][C22_Step]_vars
    /\ \A u \in UnitIds :
          /\ (unit_id = u) => [](unit_id = u)
          /\ [](SetUnitIdDone(u) => []((request # <<>>) => request[1] = u))

\* set_unit_id(64) has returned Ok on the handle built for unit 5, and the
\* handle still holds 5.
C22_Witness ==
    /\ SetUnitIdDone(5) /\ call.arg = 64
    /\ tx = request /\ request[1] = 5
    /\ SubSeq(request, 8, 11) = <<66, 128, 0, 0>>

\* The capacity of the response buffer, a heapless::Vec<u8, 256>.
ResponseCapacity == 256

\* Over every 3-byte prefix: a length that is inferred lies in 3..255, and
\* resizing the prefix to it gives a buffer of that length that starts with
\* the prefix.
InferredLengthFits ==
    \A func \in 0..255 : \A count \in 0..255 :
        LET prefix == <<17, func, count>>
            guess == guess_response_frame_len(prefix)
        IN  guess.ok =>
                /\ 3 <= guess.len /\ guess.len <= 255
                /\ guess.len <= ResponseCapacity
                /\ Len(Resize(prefix, guess.len)) = guess.len
                /\ SubSeq(Resize(prefix, guess.len), 1, 3) = prefix

C23_State ==
    /\ Len(response) <= ResponseCapacity
    /\ (frame_len > 0) =>
            /\ 3 <= frame_len /\ frame_len <= 255
            /\ Len(response) = frame_len
            /\ guess_response_frame_len(SubSeq(response, 1, 3)).ok
            /\ guess_response_frame_len(SubSeq(response, 1, 3)).len = frame_len
    /\ (pc = "rest") => (3 <= nread /\ nread < Len(response))

C23_Step ==
    /\ (frame_len = 0 /\ frame_len' > 0) =>
            /\ Len(response) = 3 /\ Len(response') = frame_len'
            /\ SubSeq(response', 1, 2) = SubSeq(response, 1, 2)
            /\ response'[3] = Head(rx)
    /\ (frame_len > 0 /\ pc' # "ready") =>
            /\ Len(response') = Len(response)
            /\ SubSeq(response', 1, 3) = SubSeq(response, 1, 3)
    /\ (nread' = nread + 1) =>
            (nread' <= Len(response') /\ response'[nread'] = Head(rx))

\* C23: in every transaction the frame length inferred from the 3-byte
\* prefix, when inference succeeds, lies between 3 and 255, so resizing the
\* 256-byte response buffer to it never fails, the already-read prefix is
\* kept, and the slice of remaining bytes starting at index 3 is in bounds.
C23_LengthInBounds ==
    /\ [](InferredLengthFits /\ C23_State)
    /\ [][C23_Step]_vars

\* The prefix 05 03 FA was read: the length inferred is 255 and the buffer was
\* resized to 255 bytes that start with the prefix.
C23_Witness ==
    /\ pc = "rest" /\ frame_len = 255 /\ nread = 3
    /\ Len(response) = 255
    /\ SubSeq(response, 1, 3) = <<5, 3, 250>>

\* The number of coils asked for in the request frame of the call in progress.
RequestCount == U16FromBeBytes(<<request[5], request[6]>>)

\* C24: the assertion count <= 8 at the head of get_coils holds on every call
\* made through the public accessors: its only callers ask for 1 coil
\* (get_j1_status) or 8 coils (get_status).
C24_AssertHolds ==
    /\ (mreq.func = MODBUS_GET_COILS) = IsCoilGetter(call.name)
    /\ IsCoilGetter(call.name) =>
            /\ result # Panicked
            /\ request # <<>> /\ Len(request) = 8
            /\ mreq.count <= 8
            /\ mreq.count = (IF call.name = "get_j1_status" THEN 1 ELSE 8)
            /\ RequestCount = mreq.count

\* get_status passed the assertion, asked for 8 coils and returned Ok.
C24_Witness ==
    /\ call.name = "get_status" /\ pc = "done" /\ result.kind = "Ok"
    /\ mreq.count = 8
    /\ SubSeq(tx, 1, 6) = <<unit_id, 1, 0, 0, 0, 8>>

====
